---- MODULE Spec2Model ----
(***************************************************************************)
(* A model of the wasm_gc collector (gc/src/lib.rs, gc/src/global_gc.rs)   *)
(* and of the handle operations a client performs on it                    *)
(* (dbg_runner/src/main.rs).                                               *)
(*                                                                         *)
(* Allocation records (GcBox) are numbered 1..MaxRecs, 0 is the null       *)
(* pointer (Option::None).  Handles (Gc<T>) are numbered 1..MaxHandles.    *)
(* Every mutex acquisition of the code is one atomic step of the model;    *)
(* the registry lock is held across steps, as in the code.                 *)
(***************************************************************************)
EXTENDS Integers, Sequences, FiniteSets, TLC

\* ---------------------------------------------------------------- bounds
MaxRecs == 3
MaxHandles == 3
\* the largest value of the root counter (u32::MAX in the code), scaled down
RootCountMax == 4
\* the number of handle fields of a value handed to Gc::new
MaxFields == 1

Recs == 1..MaxRecs
Handles == 1..MaxHandles
Null == 0
NoVal == -1
AppThreads == {"t1", "t2"}
BgThread == "bg"
Threads == AppThreads \cup {BgThread}
NoThread == "none"

VARIABLES
    \* GcBox / GcBoxHeader, per record
    alloc,      \* "none" (never allocated), "live", "freed" (Box dropped)
    rc,         \* header.root_count
    marked,     \* header.marked
    nextAlloc,  \* header.next_allocation
    val,        \* val.n of the ExampleNum payload
    \* GcAlloc
    firstAlloc, \* first_alloc
    \* Gc<T>, per handle
    hst,        \* "none", "held" (owned by client code), "moving" (inside a value
                \* being wrapped), "field" (stored in a record's value),
                \* "new" (built by from_box, not yet returned), "dropped"
    htgt,       \* gcbox
    hroot,      \* is_root
    hown,       \* the record whose value stores the handle (when "field")
    \* threads
    pc, frame,
    \* GcAllock: the registry mutex, the Once, and mutex poisoning
    gcLock, onceDone, gcNew, poison,
    \* history: val.mark() calls per record in the running cycle, destructor
    \* runs per record, cycles completed since the last handle operation
    visits, dtorRuns, quiet

heapVars == <<alloc, rc, marked, nextAlloc, val, firstAlloc>>
handleVars == <<hst, htgt, hroot, hown>>
threadVars == <<pc, frame>>
lockVars == <<gcLock, onceDone, gcNew, poison>>
histVars == <<visits, dtorRuns, quiet>>
vars == <<heapVars, handleVars, threadVars, lockVars, histVars>>

\* a thread's locals: from_box's value (its handle fields, those still to demote,
\* its number), its GcBox and its handle; mark_sweep's list cursor (for_each_alloc's
\* `this`, the sweep's `ptr_to_next`: Null stands for &first_alloc, r for
\* &r.header.next_allocation) and the sweep's `next`
NoFrame == [todo |-> <<>>, fields |-> {}, n |-> NoVal, box |-> Null, h |-> Null,
            cur |-> Null, nxt |-> Null]

\* ------------------------------------------------------------- helpers
Min(S) == CHOOSE x \in S : \A y \in S : x <= y

RECURSIVE SeqOf(_)
SeqOf(S) == IF S = {} THEN <<>> ELSE <<Min(S)>> \o SeqOf(S \ {Min(S)})

Perms(S) == {s \in [1..Cardinality(S) -> S] : \A i, j \in 1..Cardinality(S) : i # j => s[i] # s[j]}

\* the handles stored in the value of record r (ExampleNum.next)
Fields(r) == {h \in Handles : hst[h] = "field" /\ hown[h] = r}

\* the records a record's value points to
Succ(r) == {htgt[h] : h \in Fields(r)}

RECURSIVE ReachN(_, _)
ReachN(S, k) == IF k = 0 THEN S ELSE ReachN(S \cup UNION {Succ(r) : r \in S}, k - 1)
\* the records reachable from record r through handle fields (r included)
Reach(r) == ReachN({r}, MaxRecs)

RECURSIVE ChainN(_, _)
ChainN(p, k) == IF p = Null \/ k = 0 THEN {} ELSE {p} \cup ChainN(nextAlloc[p], k - 1)
\* the records in the registry: the list from first_alloc along next_allocation
Registered == ChainN(firstAlloc, MaxRecs + 1)

\* ------------------------------------------------- the root counter
PosOne == 1
NegOne == 1

Ok(v) == [panic |-> FALSE, val |-> v]
Panic(v) == [panic |-> TRUE, val |-> v]

\* change_root_count on a counter holding c: the set of outcomes.  `*rc -= 1`
\* at 0 panics in a build with overflow checks and wraps in one without.
ChangeRootCount_Wrapping(c, delta) ==
    IF delta = 1 THEN {Ok((c + 1) % (RootCountMax + 1))}
    ELSE IF delta = -1 THEN {Ok((c + RootCountMax) % (RootCountMax + 1))}
    ELSE {Panic(c)}

ChangeRootCount(c, delta) ==
    IF delta = -1 THEN (IF c = 0 THEN {Panic(c), Ok(RootCountMax)} ELSE {Ok(c - 1)})
    ELSE IF delta = 1 THEN (IF c = RootCountMax THEN {Panic(c)} ELSE {Ok(c + 1)})
    ELSE {Panic(c)}

\* root_count.lock().unwrap() panics on a poisoned mutex
RootCountOp(r, delta) ==
    IF r \in poison.rc THEN {Panic(rc[r])} ELSE ChangeRootCount(rc[r], delta)

\* inc_root_count that leaves the counter alone
inc_root_count_NoOp(r) == {Ok(rc[r])}

inc_root_count(r) == RootCountOp(r, PosOne)
dec_root_count(r) == RootCountOp(r, NegOne)

is_rooted_AboveOne(c) == c > 1

is_rooted(c) == c > 0

\* ------------------------------------------------------------- Init
Init ==
    /\ alloc = [r \in Recs |-> "none"]
    /\ rc = [r \in Recs |-> 0]
    /\ marked = [r \in Recs |-> FALSE]
    /\ nextAlloc = [r \in Recs |-> Null]
    /\ val = [r \in Recs |-> NoVal]
    /\ firstAlloc = Null
    /\ hst = [h \in Handles |-> "none"]
    /\ htgt = [h \in Handles |-> Null]
    /\ hroot = [h \in Handles |-> FALSE]
    /\ hown = [h \in Handles |-> Null]
    /\ pc = [t \in Threads |-> IF t = BgThread THEN "off" ELSE "idle"]
    /\ frame = [t \in Threads |-> NoFrame]
    /\ gcLock = NoThread
    /\ onceDone = FALSE
    /\ gcNew = 0
    /\ poison = [rc |-> {}, root |-> {}, gc |-> FALSE]
    /\ visits = [r \in Recs |-> 0]
    /\ dtorRuns = [r \in Recs |-> 0]
    /\ quiet = 0

\* a thread panics and unwinds
PanicPc(p, t) == [p EXCEPT ![t] = "panicked"]
\* a panic while unwinding aborts the process: every thread stops
AbortPc == [t \in Threads |-> "aborted"]

\* ----------------------------------------------- global_gc::lock()
CanLock_NoExclusion == TRUE

\* GC.gc.lock() blocks while another thread holds the guard
CanLock == gcLock = NoThread

\* GC.once.call_once with the closure run on every call
CallOnce_EveryTime(done, n) == n + 1

\* GC.once.call_once(|| gc.write(GcAlloc::new())): the number of GcAlloc::new()
\* calls (each spawns one collection_loop thread) after a call that finds the
\* Once completed or not
CallOnce(done, n) == IF done THEN n ELSE n + 1

\* lock(): call_once creates the GcAlloc (spawning collection_loop) on first
\* use, then locks GC.gc; a poisoned mutex makes unwrap() panic
LockGc(t, to, fr) ==
    /\ CanLock
    /\ onceDone' = TRUE
    /\ gcNew' = CallOnce(onceDone, gcNew)
    /\ LET spawned == IF onceDone THEN pc ELSE [pc EXCEPT ![BgThread] = "sleep"] IN
       IF poison.gc
       THEN /\ pc' = PanicPc(spawned, t)
            /\ frame' = [frame EXCEPT ![t] = NoFrame]
            /\ gcLock' = gcLock
       ELSE /\ pc' = [spawned EXCEPT ![t] = to]
            /\ frame' = [frame EXCEPT ![t] = fr]
            /\ gcLock' = t
    /\ UNCHANGED poison

\* init_gc(): `let _ = global_gc::lock();`, the guard dropped at once
init_gc(t) ==
    /\ t \in AppThreads
    /\ pc[t] = "idle"
    /\ CanLock
    /\ onceDone' = TRUE
    /\ gcNew' = CallOnce(onceDone, gcNew)
    /\ LET spawned == IF onceDone THEN pc ELSE [pc EXCEPT ![BgThread] = "sleep"] IN
       pc' = IF poison.gc THEN PanicPc(spawned, t) ELSE spawned
    /\ UNCHANGED <<heapVars, handleVars, frame, gcLock, poison, histVars>>

\* ------------------------------------------------ handle operations
FreshHandles == {h \in Handles : hst[h] = "none"}
FreshRecs == {r \in Recs : alloc[r] = "none"}
\* the client numbers its nodes in the order it builds them (main.rs: 2, 1, 0)
Values == {Cardinality(FreshRecs) - 1}

\* a handle client code can use: one it holds, or a field of a record it can
\* reach from one it holds
Held == {h \in Handles : hst[h] = "held"}
Usable == Held \cup {h \in Handles : hst[h] = "field" /\ \E g \in Held : hown[h] \in Reach(htgt[g])}

\* Clone for Gc: inc_root_count, then a new handle with is_root = true
clone(t, h) ==
    /\ pc[t] = "idle"
    /\ h \in Usable
    /\ alloc[htgt[h]] = "live"
    /\ FreshHandles # {}
    /\ \E o \in inc_root_count(htgt[h]) :
         IF o.panic
         THEN /\ pc' = PanicPc(pc, t)
              /\ poison' = [poison EXCEPT !.rc = @ \cup {htgt[h]}]
              /\ UNCHANGED <<rc, handleVars>>
         ELSE LET g == Min(FreshHandles) IN
              /\ rc' = [rc EXCEPT ![htgt[h]] = o.val]
              /\ hst' = [hst EXCEPT ![g] = "held"]
              /\ htgt' = [htgt EXCEPT ![g] = htgt[h]]
              /\ hroot' = [hroot EXCEPT ![g] = TRUE]
              /\ UNCHANGED <<hown, pc, poison>>
    /\ quiet' = 0
    /\ UNCHANGED <<alloc, marked, nextAlloc, val, firstAlloc, frame, gcLock, onceDone,
                   gcNew, visits, dtorRuns>>

\* Drop for Gc that owns its record, as a Box does: the record goes with the handle
drop_Deallocates(t, h) ==
    /\ pc[t] = "idle"
    /\ h \in Held
    /\ alloc[htgt[h]] = "live"
    /\ hst' = [hst EXCEPT ![h] = "dropped"]
    /\ htgt' = [htgt EXCEPT ![h] = Null]
    /\ hroot' = [hroot EXCEPT ![h] = FALSE]
    /\ alloc' = [alloc EXCEPT ![htgt[h]] = "freed"]
    /\ dtorRuns' = [dtorRuns EXCEPT ![htgt[h]] = @ + 1]
    /\ quiet' = 0
    /\ UNCHANGED <<rc, marked, nextAlloc, val, firstAlloc, hown, threadVars, lockVars, visits>>

\* Drop for Gc: if is_root, dec_root_count; the handle is gone either way
drop(t, h) ==
    /\ pc[t] = "idle"
    /\ h \in Held
    /\ alloc[htgt[h]] = "live"
    /\ hst' = [hst EXCEPT ![h] = "dropped"]
    /\ htgt' = [htgt EXCEPT ![h] = Null]
    /\ hroot' = [hroot EXCEPT ![h] = FALSE]
    /\ IF h \in poison.root
       THEN /\ pc' = PanicPc(pc, t)
            /\ UNCHANGED <<rc, poison>>
       ELSE IF hroot[h]
       THEN \E o \in dec_root_count(htgt[h]) :
              IF o.panic
              THEN /\ pc' = PanicPc(pc, t)
                   /\ poison' = [poison EXCEPT !.rc = @ \cup {htgt[h]}]
                   /\ UNCHANGED rc
              ELSE /\ rc' = [rc EXCEPT ![htgt[h]] = o.val]
                   /\ UNCHANGED <<pc, poison>>
       ELSE UNCHANGED <<rc, pc, poison>>
    /\ quiet' = 0
    /\ UNCHANGED <<alloc, marked, nextAlloc, val, firstAlloc, hown, frame,
                   gcLock, onceDone, gcNew, visits, dtorRuns>>

\* Gc::set_not_root without the `if *is_root` test
SetNotRoot_Unconditional(h) ==
    IF h \in poison.root
    THEN {[panic |-> TRUE, rc |-> rc, hroot |-> hroot, poison |-> poison]}
    ELSE {IF o.panic
          THEN [panic |-> TRUE, rc |-> rc, hroot |-> hroot,
                poison |-> [poison EXCEPT !.rc = @ \cup {htgt[h]}, !.root = @ \cup {h}]]
          ELSE [panic |-> FALSE, rc |-> [rc EXCEPT ![htgt[h]] = o.val],
                hroot |-> [hroot EXCEPT ![h] = FALSE], poison |-> poison]
          : o \in dec_root_count(htgt[h])}

\* Gc::set_not_root on handle h: the outcomes, as [panic, rc, hroot, poison].
\* The is_root guard is held across dec_root_count, so a panic there poisons both.
SetNotRoot(h) ==
    IF h \in poison.root
    THEN {[panic |-> TRUE, rc |-> rc, hroot |-> hroot, poison |-> poison]}
    ELSE IF hroot[h]
    THEN {IF o.panic
          THEN [panic |-> TRUE, rc |-> rc, hroot |-> hroot,
                poison |-> [poison EXCEPT !.rc = @ \cup {htgt[h]}, !.root = @ \cup {h}]]
          ELSE [panic |-> FALSE, rc |-> [rc EXCEPT ![htgt[h]] = o.val],
                hroot |-> [hroot EXCEPT ![h] = FALSE], poison |-> poison]
          : o \in dec_root_count(htgt[h])}
    ELSE {[panic |-> FALSE, rc |-> rc, hroot |-> hroot, poison |-> poison]}

\* Demote: client code calls set_not_root on a handle it holds
set_not_root(t, h) ==
    /\ pc[t] = "idle"
    /\ h \in Held
    /\ alloc[htgt[h]] = "live"
    /\ \E o \in SetNotRoot(h) :
         /\ rc' = o.rc
         /\ hroot' = o.hroot
         /\ poison' = o.poison
         /\ pc' = IF o.panic THEN PanicPc(pc, t) ELSE pc
    /\ quiet' = 0
    /\ UNCHANGED <<alloc, marked, nextAlloc, val, firstAlloc, hst, htgt, hown, frame,
                   gcLock, onceDone, gcNew, visits, dtorRuns>>

\* client code moves a demoted handle it holds into the value of a record it
\* holds a handle to (ExampleNum.next behind a lock), making it an outgoing edge
StoreField(t, h, g) ==
    /\ pc[t] = "idle"
    /\ h \in Held /\ g \in Held /\ h # g
    /\ ~hroot[h]
    /\ alloc[htgt[g]] = "live" /\ alloc[htgt[h]] = "live"
    /\ hst' = [hst EXCEPT ![h] = "field"]
    /\ hown' = [hown EXCEPT ![h] = htgt[g]]
    /\ quiet' = 0
    /\ UNCHANGED <<heapVars, htgt, hroot, threadVars, lockVars, visits, dtorRuns>>

\* ------------------------------------------------------ Gc::from_box
\* Gc::new(val): the value takes the handles S the client moved into it
from_box(t, S, n) ==
    /\ pc[t] = "idle"
    /\ S \subseteq Held
    /\ Cardinality(S) <= MaxFields
    /\ \A h \in S : alloc[htgt[h]] = "live"
    /\ FreshRecs # {} /\ FreshHandles # {}
    /\ \E order \in Perms(S) :
         frame' = [frame EXCEPT ![t] = [NoFrame EXCEPT !.todo = order, !.fields = S, !.n = n]]
    /\ hst' = [h \in Handles |-> IF h \in S THEN "moving" ELSE hst[h]]
    /\ pc' = [pc EXCEPT ![t] = "demote"]
    /\ quiet' = 0
    /\ UNCHANGED <<heapVars, htgt, hroot, hown, lockVars, visits, dtorRuns>>

\* val.set_not_root(): Gc::set_not_root on the next handle field of the value.
\* A panic here unwinds through the value, whose Drop locks the poisoned is_root
\* mutex of that handle and panics again: the process aborts.
from_box_set_not_root(t) ==
    /\ pc[t] = "demote"
    /\ frame[t].todo # <<>>
    /\ \E o \in SetNotRoot(Head(frame[t].todo)) :
         /\ rc' = o.rc
         /\ hroot' = o.hroot
         /\ poison' = o.poison
         /\ pc' = IF o.panic THEN AbortPc ELSE pc
    /\ frame' = [frame EXCEPT ![t].todo = Tail(@)]
    /\ quiet' = 0
    /\ UNCHANGED <<alloc, marked, nextAlloc, val, firstAlloc, hst, htgt, hown,
                   gcLock, onceDone, gcNew, visits, dtorRuns>>

\* Box::leak(Box::new(GcBox { .. })): the record, with root_count 1, unmarked and
\* unlinked; the value and its handle fields move into it
from_box_alloc(t) ==
    /\ pc[t] = "demote"
    /\ frame[t].todo = <<>>
    /\ FreshRecs # {} /\ FreshHandles # {}
    /\ LET r == Min(FreshRecs)
           g == Min(FreshHandles) IN
       /\ alloc' = [alloc EXCEPT ![r] = "live"]
       /\ rc' = [rc EXCEPT ![r] = 1]
       /\ marked' = [marked EXCEPT ![r] = FALSE]
       /\ nextAlloc' = [nextAlloc EXCEPT ![r] = Null]
       /\ val' = [val EXCEPT ![r] = frame[t].n]
       /\ hst' = [h \in Handles |-> IF h \in frame[t].fields THEN "field"
                                     ELSE IF h = g THEN "new" ELSE hst[h]]
       /\ hown' = [h \in Handles |-> IF h \in frame[t].fields THEN r ELSE hown[h]]
       /\ htgt' = [htgt EXCEPT ![g] = r]
       /\ hroot' = [hroot EXCEPT ![g] = TRUE]
       /\ frame' = [frame EXCEPT ![t] = [NoFrame EXCEPT !.box = r, !.h = g]]
    /\ pc' = [pc EXCEPT ![t] = "boxed"]
    /\ quiet' = 0
    /\ UNCHANGED <<firstAlloc, lockVars, visits, dtorRuns>>

\* global_gc::lock() of from_box
from_box_lock(t) ==
    /\ pc[t] = "boxed"
    /\ LockGc(t, "register", frame[t])
    /\ quiet' = 0
    /\ UNCHANGED <<heapVars, handleVars, visits, dtorRuns>>

\* GcAlloc::register_gcbox on record g: [panic, first, next] for first_alloc and
\* the next_allocation links afterwards
RegisterGcbox(g) ==
    IF nextAlloc[g] # Null
    THEN [panic |-> TRUE, first |-> firstAlloc, next |-> nextAlloc]
    ELSE [panic |-> FALSE, first |-> g, next |-> [nextAlloc EXCEPT ![g] = firstAlloc]]

\* register_gcbox(gcbox), the guard dropped at the end of the statement, and the
\* handle returned.  A panic drops the guard while unwinding and poisons GC.gc.
register_gcbox(t) ==
    /\ pc[t] = "register"
    /\ LET o == RegisterGcbox(frame[t].box) IN
       /\ firstAlloc' = o.first
       /\ nextAlloc' = o.next
       /\ IF o.panic
          THEN /\ pc' = PanicPc(pc, t)
               /\ poison' = [poison EXCEPT !.gc = TRUE]
               /\ UNCHANGED hst
          ELSE /\ pc' = [pc EXCEPT ![t] = "idle"]
               /\ hst' = [hst EXCEPT ![frame[t].h] = "held"]
               /\ UNCHANGED poison
    /\ gcLock' = NoThread
    /\ frame' = [frame EXCEPT ![t] = NoFrame]
    /\ quiet' = 0
    /\ UNCHANGED <<alloc, rc, marked, val, htgt, hroot, hown, onceDone, gcNew,
                   visits, dtorRuns>>

\* ------------------------------------------------- GcAlloc::mark_sweep
\* force_collect(): global_gc::lock().mark_sweep(), entered with the guard held
force_collect(t) ==
    /\ t \in AppThreads
    /\ pc[t] = "idle"
    /\ LockGc(t, "unmark", [NoFrame EXCEPT !.cur = firstAlloc])
    /\ visits' = [r \in Recs |-> 0]
    /\ UNCHANGED <<heapVars, handleVars, dtorRuns, quiet>>

\* collection_loop(): after the sleep, global_gc::lock().mark_sweep()
collection_loop(t) ==
    /\ t = BgThread
    /\ pc[t] = "sleep"
    /\ LockGc(t, "unmark", [NoFrame EXCEPT !.cur = firstAlloc])
    /\ visits' = [r \in Recs |-> 0]
    /\ UNCHANGED <<heapVars, handleVars, dtorRuns, quiet>>

\* the first for_each_alloc: header.unmark() on the record under the cursor
unmark(t) ==
    /\ pc[t] = "unmark"
    /\ LET r == frame[t].cur IN
       IF r = Null
       THEN /\ pc' = [pc EXCEPT ![t] = "mark"]
            /\ frame' = [frame EXCEPT ![t].cur = firstAlloc]
            /\ UNCHANGED marked
       ELSE /\ marked' = [marked EXCEPT ![r] = FALSE]
            /\ frame' = [frame EXCEPT ![t].cur = nextAlloc[r]]
            /\ UNCHANGED pc
    /\ UNCHANGED <<alloc, rc, nextAlloc, val, firstAlloc, handleVars, lockVars, histVars>>

\* Gc::mark on a handle to record g and ExampleNum::mark over the handle fields
\* fs, on ms = [m |-> the mark bits, v |-> the val.mark() calls per record]
RECURSIVE GcMark(_, _), ValMark(_, _)
GcMark(g, ms) ==
    IF ms.m[g] THEN ms
    ELSE ValMark(SeqOf(Fields(g)), [m |-> [ms.m EXCEPT ![g] = TRUE], v |-> [ms.v EXCEPT ![g] = @ + 1]])
ValMark(fs, ms) ==
    IF fs = <<>> THEN ms ELSE ValMark(Tail(fs), GcMark(htgt[Head(fs)], ms))

\* the second for_each_alloc, on a rooted record r: header.mark(); val.mark()
MarkRoot(r, ms) ==
    ValMark(SeqOf(Fields(r)), [m |-> [ms.m EXCEPT ![r] = TRUE], v |-> [ms.v EXCEPT ![r] = @ + 1]])

\* the second for_each_alloc: is_rooted() locks root_count and panics when it
\* is poisoned, which drops the registry guard and poisons GC.gc
mark(t) ==
    /\ pc[t] = "mark"
    /\ LET r == frame[t].cur IN
       IF r = Null
       THEN /\ pc' = [pc EXCEPT ![t] = "sweep_inner"]
            /\ frame' = [frame EXCEPT ![t].cur = Null]
            /\ UNCHANGED <<marked, visits, gcLock, poison>>
       ELSE IF r \in poison.rc
       THEN /\ pc' = PanicPc(pc, t)
            /\ frame' = [frame EXCEPT ![t] = NoFrame]
            /\ gcLock' = NoThread
            /\ poison' = [poison EXCEPT !.gc = TRUE]
            /\ UNCHANGED <<marked, visits>>
       ELSE LET ms == IF is_rooted(rc[r]) THEN MarkRoot(r, [m |-> marked, v |-> visits])
                      ELSE [m |-> marked, v |-> visits] IN
            /\ marked' = ms.m
            /\ visits' = ms.v
            /\ frame' = [frame EXCEPT ![t].cur = nextAlloc[r]]
            /\ UNCHANGED <<pc, gcLock, poison>>
    /\ UNCHANGED <<alloc, rc, nextAlloc, val, firstAlloc, handleVars, onceDone, gcNew,
                   dtorRuns, quiet>>

\* *ptr_to_next
SlotVal(slot) == IF slot = Null THEN firstAlloc ELSE nextAlloc[slot]

\* the inner loop's `let Some(next) = ptr_to_next.as_mut() else { break }`
sweep_inner(t) ==
    /\ pc[t] = "sweep_inner"
    /\ IF SlotVal(frame[t].cur) = Null
       THEN /\ pc' = [pc EXCEPT ![t] = "sweep_outer"]
            /\ UNCHANGED frame
       ELSE /\ pc' = [pc EXCEPT ![t] = "sweep_test"]
            /\ frame' = [frame EXCEPT ![t].nxt = SlotVal(frame[t].cur)]
    /\ UNCHANGED <<heapVars, handleVars, lockVars, histVars>>

\* remove_allocation: *pointer_to_dropping = dropping.next_allocation, then the
\* Box is dropped: the destructor runs and the value's handle fields are dropped
\* (no handle field is rooted, FieldsNotRooted, so their Drop changes no counter)
remove_allocation(slot, n) ==
    /\ IF slot = Null
       THEN /\ firstAlloc' = nextAlloc[n]
            /\ UNCHANGED nextAlloc
       ELSE /\ nextAlloc' = [nextAlloc EXCEPT ![slot] = nextAlloc[n]]
            /\ UNCHANGED firstAlloc
    /\ alloc' = [alloc EXCEPT ![n] = "freed"]
    /\ val' = [val EXCEPT ![n] = NoVal]
    /\ dtorRuns' = [dtorRuns EXCEPT ![n] = @ + 1]
    /\ hst' = [h \in Handles |-> IF h \in Fields(n) THEN "dropped" ELSE hst[h]]
    /\ htgt' = [h \in Handles |-> IF h \in Fields(n) THEN Null ELSE htgt[h]]
    /\ hown' = [h \in Handles |-> IF h \in Fields(n) THEN Null ELSE hown[h]]

\* sweep_test with the test inverted: marked records are removed
sweep_test_Inverted(t) ==
    /\ pc[t] = "sweep_test"
    /\ IF marked[frame[t].nxt]
       THEN remove_allocation(frame[t].cur, frame[t].nxt)
       ELSE UNCHANGED <<alloc, nextAlloc, val, firstAlloc, hst, htgt, hown, dtorRuns>>
    /\ pc' = [pc EXCEPT ![t] = "sweep_inner"]
    /\ frame' = [frame EXCEPT ![t].nxt = Null]
    /\ UNCHANGED <<rc, marked, hroot, lockVars, visits, quiet>>

\* sweep_test without the test and with a `break` after the removal
sweep_test_RemoveAndBreak(t) ==
    /\ pc[t] = "sweep_test"
    /\ remove_allocation(frame[t].cur, frame[t].nxt)
    /\ pc' = [pc EXCEPT ![t] = "sweep_outer"]
    /\ frame' = [frame EXCEPT ![t].nxt = Null]
    /\ UNCHANGED <<rc, marked, hroot, lockVars, visits, quiet>>

\* the inner loop's body: `if !next.header.marked() { remove_allocation(..) }`,
\* and back to the top of the inner loop either way
sweep_test(t) ==
    /\ pc[t] = "sweep_test"
    /\ IF ~marked[frame[t].nxt]
       THEN remove_allocation(frame[t].cur, frame[t].nxt)
       ELSE UNCHANGED <<alloc, nextAlloc, val, firstAlloc, hst, htgt, hown, dtorRuns>>
    /\ pc' = [pc EXCEPT ![t] = "sweep_inner"]
    /\ frame' = [frame EXCEPT ![t].nxt = Null]
    /\ UNCHANGED <<rc, marked, hroot, lockVars, visits, quiet>>

\* the outer loop's match: advance ptr_to_next, or leave mark_sweep, dropping
\* the guard
sweep_outer(t) ==
    /\ pc[t] = "sweep_outer"
    /\ IF SlotVal(frame[t].cur) # Null
       THEN /\ frame' = [frame EXCEPT ![t].cur = SlotVal(frame[t].cur)]
            /\ pc' = [pc EXCEPT ![t] = "sweep_inner"]
            /\ UNCHANGED <<gcLock, quiet>>
       ELSE /\ frame' = [frame EXCEPT ![t] = NoFrame]
            /\ pc' = [pc EXCEPT ![t] = IF t = BgThread THEN "sleep" ELSE "idle"]
            /\ gcLock' = NoThread
            /\ quiet' = IF quiet < 2 THEN quiet + 1 ELSE quiet
    /\ UNCHANGED <<heapVars, handleVars, onceDone, gcNew, poison, visits, dtorRuns>>

\* ------------------------------------------------------------- Next
Collector ==
    \E t \in Threads : unmark(t) \/ mark(t) \/ sweep_inner(t) \/ sweep_test(t) \/ sweep_outer(t)

Next ==
    \/ \E t \in AppThreads, h \in Handles : clone(t, h)
    \/ \E t \in AppThreads, h \in Handles : drop(t, h)
    \/ \E t \in AppThreads, h \in Handles : set_not_root(t, h)
    \/ \E t \in AppThreads, h, g \in Handles : StoreField(t, h, g)
    \/ \E t \in AppThreads, S \in SUBSET Handles, n \in Values : from_box(t, S, n)
    \/ \E t \in AppThreads : from_box_set_not_root(t)
    \/ \E t \in AppThreads : from_box_alloc(t)
    \/ \E t \in AppThreads : from_box_lock(t)
    \/ \E t \in AppThreads : register_gcbox(t)
    \/ \E t \in AppThreads : init_gc(t)
    \/ \E t \in AppThreads : force_collect(t)
    \/ collection_loop(BgThread)
    \/ \E t \in Threads : unmark(t)
    \/ \E t \in Threads : mark(t)
    \/ \E t \in Threads : sweep_inner(t)
    \/ \E t \in Threads : sweep_test(t)
    \/ \E t \in Threads : sweep_outer(t)

Spec == Init /\ [][Next]_vars

\* a thread inside mark_sweep keeps running
FairSpec == Spec /\ WF_vars(Collector)

\* the runs in which one client thread does everything and the background
\* collector stays asleep
SoloNext ==
    \/ \E h \in Handles : clone("t1", h)
    \/ \E h \in Handles : drop("t1", h)
    \/ \E h \in Handles : set_not_root("t1", h)
    \/ \E h, g \in Handles : StoreField("t1", h, g)
    \/ \E S \in SUBSET Handles, n \in Values : from_box("t1", S, n)
    \/ from_box_set_not_root("t1")
    \/ from_box_alloc("t1")
    \/ from_box_lock("t1")
    \/ register_gcbox("t1")
    \/ init_gc("t1")
    \/ force_collect("t1")
    \/ unmark("t1")
    \/ mark("t1")
    \/ sweep_inner("t1")
    \/ sweep_test("t1")
    \/ sweep_outer("t1")

SoloFairSpec == Init /\ [][SoloNext]_vars /\ WF_vars(Collector)

\* the runs in which one client thread never calls force_collect and every
\* cycle is the background thread's
BgCollector ==
    \/ collection_loop(BgThread)
    \/ unmark(BgThread) \/ mark(BgThread)
    \/ sweep_inner(BgThread) \/ sweep_test(BgThread) \/ sweep_outer(BgThread)

BgNext ==
    \/ \E h \in Handles : clone("t1", h)
    \/ \E h \in Handles : drop("t1", h)
    \/ \E h \in Handles : set_not_root("t1", h)
    \/ \E h, g \in Handles : StoreField("t1", h, g)
    \/ \E S \in SUBSET Handles, n \in Values : from_box("t1", S, n)
    \/ from_box_set_not_root("t1")
    \/ from_box_alloc("t1")
    \/ from_box_lock("t1")
    \/ register_gcbox("t1")
    \/ init_gc("t1")
    \/ collection_loop(BgThread)
    \/ unmark(BgThread)
    \/ mark(BgThread)
    \/ sweep_inner(BgThread)
    \/ sweep_test(BgThread)
    \/ sweep_outer(BgThread)

\* the background thread, once spawned, wakes from its sleep and keeps running,
\* and a client thread that holds the registry guard finishes its registration
BgFairSpec ==
    Init /\ [][BgNext]_vars /\ WF_vars(BgCollector) /\ WF_vars(register_gcbox("t1"))

TypeOK ==
    /\ alloc \in [Recs -> {"none", "live", "freed"}]
    /\ rc \in [Recs -> 0..RootCountMax]
    /\ marked \in [Recs -> BOOLEAN]
    /\ nextAlloc \in [Recs -> Recs \cup {Null}]
    /\ firstAlloc \in Recs \cup {Null}
    /\ hst \in [Handles -> {"none", "held", "moving", "field", "new", "dropped"}]
    /\ htgt \in [Handles -> Recs \cup {Null}]
    /\ hroot \in [Handles -> BOOLEAN]
    /\ gcLock \in Threads \cup {NoThread}
    /\ gcNew \in 0..1

\* no handle stored in a record's value counts as a root
FieldsNotRooted == \A h \in Handles : hst[h] = "field" => ~hroot[h]

\* ------------------------------------------------- harness: double registration
\* a caller hands register_gcbox a record that is already in the registry:
\* global_gc::lock().register_gcbox(gcb)
register_again(t, r) ==
    /\ pc[t] = "idle"
    /\ r \in Registered
    /\ alloc[r] = "live"
    /\ CanLock
    /\ onceDone
    /\ IF poison.gc
       THEN /\ pc' = PanicPc(pc, t)
            /\ UNCHANGED <<firstAlloc, nextAlloc, poison>>
       ELSE LET o == RegisterGcbox(r) IN
            /\ firstAlloc' = o.first
            /\ nextAlloc' = o.next
            /\ pc' = IF o.panic THEN PanicPc(pc, t) ELSE pc
            /\ poison' = IF o.panic THEN [poison EXCEPT !.gc = TRUE] ELSE poison
    /\ quiet' = 0
    /\ UNCHANGED <<alloc, rc, marked, val, handleVars, frame, gcLock, onceDone, gcNew,
                   visits, dtorRuns>>

NextReg ==
    \/ SoloNext
    \/ \E r \in Recs : register_again("t1", r)

SpecReg == Init /\ [][NextReg]_vars

\* ------------------------------------------- harness: the counter as a function
\* change_root_count as a function of the counter it finds: one registered
\* record whose root_count is any value of the counter's type, and one rooted
\* handle to it; the client clones, demotes and drops handles
InitCount ==
    /\ alloc = [r \in Recs |-> IF r = 1 THEN "live" ELSE "none"]
    /\ rc \in {[r \in Recs |-> IF r = 1 THEN c ELSE 0] : c \in 0..RootCountMax}
    /\ marked = [r \in Recs |-> FALSE]
    /\ nextAlloc = [r \in Recs |-> Null]
    /\ val = [r \in Recs |-> IF r = 1 THEN 0 ELSE NoVal]
    /\ firstAlloc = 1
    /\ hst = [h \in Handles |-> IF h = 1 THEN "held" ELSE "none"]
    /\ htgt = [h \in Handles |-> IF h = 1 THEN 1 ELSE Null]
    /\ hroot = [h \in Handles |-> h = 1]
    /\ hown = [h \in Handles |-> Null]
    /\ pc = [t \in Threads |-> IF t = BgThread THEN "sleep" ELSE "idle"]
    /\ frame = [t \in Threads |-> NoFrame]
    /\ gcLock = NoThread
    /\ onceDone = TRUE
    /\ gcNew = 1
    /\ poison = [rc |-> {}, root |-> {}, gc |-> FALSE]
    /\ visits = [r \in Recs |-> 0]
    /\ dtorRuns = [r \in Recs |-> 0]
    /\ quiet = 0

NextCount ==
    \/ \E t \in AppThreads, h \in Handles : clone(t, h)
    \/ \E t \in AppThreads, h \in Handles : drop(t, h)
    \/ \E t \in AppThreads, h \in Handles : set_not_root(t, h)

SpecCount == InitCount /\ [][NextCount]_vars

\* ------------------------------------------------------------ claims
LiveHandles == {h \in Handles : hst[h] \in {"held", "moving", "new", "field"}}
\* the live handles that count as roots of record r
RootHandles(r) == {h \in LiveHandles : htgt[h] = r /\ hroot[h]}
\* record r is reachable from a record with root_count > 0
ReachableFromRooted(r) == \E q \in Recs : alloc[q] = "live" /\ rc[q] > 0 /\ r \in Reach(q)
\* no live rooted handle reaches record r
Unrooted(r) == \A q \in Recs : r \in Reach(q) => RootHandles(q) = {}
InCycle == {"unmark", "mark", "sweep_inner", "sweep_test", "sweep_outer"}
Poisoned == poison.gc \/ poison.rc # {} \/ poison.root # {}

\* C1: no step deallocates a record that has root_count > 0 or is reachable
\* through handle fields from a record with root_count > 0, whatever handle
\* operations interleave with the unmarking, marking and sweeping steps
C1_NoRootedRecordFreed ==
    [][\A r \in Recs : (alloc[r] = "live" /\ alloc'[r] = "freed")
                       => (rc[r] = 0 /\ ~ReachableFromRooted(r))]_vars

\* the sweep examines a record that a rooted handle holds, its counter having
\* been changed by handle operations, and the record is still allocated
C1_Witness ==
    \E t \in Threads :
        /\ pc[t] = "sweep_test"
        /\ alloc[frame[t].nxt] = "live"
        /\ rc[frame[t].nxt] > 1
        /\ RootHandles(frame[t].nxt) # {}

\* C2: while a rooted handle to a record is held, every record reachable from
\* it through handle fields stays allocated and registered and keeps its value,
\* across every step of every collection cycle
C2_ReachablePreserved ==
    [][\A h \in Handles :
         (hst[h] = "held" /\ hroot[h] /\ hst'[h] = "held" /\ hroot'[h])
         => \A r \in Reach(htgt[h]) :
              alloc'[r] = "live" /\ r \in Registered' /\ val'[r] = val[r]]_vars

\* a chain of three records held by one rooted handle to its head, with the
\* sweep of a cycle under way and the interior records still allocated
C2_Witness ==
    \E h \in Handles, t \in Threads :
        /\ hst[h] = "held" /\ hroot[h]
        /\ Cardinality(Reach(htgt[h])) = 3
        /\ Cardinality(RootHandles(htgt[h])) = 1
        /\ \A r \in Reach(htgt[h]) : r # htgt[h] => RootHandles(r) = {}
        /\ pc[t] = "sweep_test"
        /\ \A r \in Reach(htgt[h]) : alloc[r] = "live" /\ r \in Registered

\* C3: once the handles to a subgraph have been dropped, so that only handle
\* fields of the subgraph reference its records, and a force_collect() has
\* started, every record of the subgraph is deallocated (unless a mutex got
\* poisoned by a panic)
C3_DroppedSubgraphFreed ==
    \A r \in Recs :
        (/\ alloc[r] = "live" /\ r \in Registered /\ Unrooted(r)
         /\ \A h \in LiveHandles : r \in Reach(htgt[h]) => hst[h] = "field"
         /\ \E t \in AppThreads : pc[t] = "unmark")
        ~> (alloc[r] = "freed" \/ Poisoned)

C5_RootCountConservation ==
    \A r \in Recs : alloc[r] = "live" => rc[r] = Cardinality(RootHandles(r))

\* C6: every collection cycle that starts returns and releases the registry
\* lock (unless a mutex got poisoned by a panic)
C6_CycleTerminates ==
    \A t \in Threads :
        (pc[t] = "unmark") ~> ((pc[t] \in {"idle", "sleep"} /\ gcLock # t) \/ Poisoned)

\* C7: after a completed cycle and with no handle operation since, a further
\* cycle deallocates nothing, runs no destructor, leaves the registry and every
\* root_count unchanged, and no thread panics
C7_SecondCollectChangesNothing ==
    [][(quiet >= 1 /\ quiet' >= 1)
       => /\ alloc' = alloc /\ dtorRuns' = dtorRuns
          /\ firstAlloc' = firstAlloc /\ nextAlloc' = nextAlloc
          /\ rc' = rc
          /\ \A t \in Threads : pc'[t] \in {"panicked", "aborted"} => pc'[t] = pc[t]]_vars

\* two cycles completed with no handle operation in between
C7_Witness == quiet = 2 /\ \E t \in AppThreads : pc[t] = "idle" /\ onceDone

\* C8: at most one thread is inside register_gcbox or mark_sweep, and it holds
\* the registry lock
C8_RegistryExclusion ==
    /\ Cardinality({t \in Threads : pc[t] \in InCycle \cup {"register"}}) <= 1
    /\ \A t \in Threads : pc[t] \in InCycle \cup {"register"} => gcLock = t

\* a registration waits for the lock while another thread runs a cycle
C8_Witness ==
    \E t, u \in Threads : pc[t] = "boxed" /\ pc[u] \in InCycle /\ gcLock = u

\* C9: register_gcbox on a record already in the registry panics and leaves
\* first_alloc and every next_allocation link unchanged
C9_DoubleRegisterPanics ==
    [][\A t \in AppThreads, r \in Recs :
         register_again(t, r)
         => (pc'[t] = "panicked" /\ firstAlloc' = firstAlloc /\ nextAlloc' = nextAlloc)]_vars

\* C10: an increment of a root_count at its maximum panics and leaves the
\* counter at the maximum; a counter only ever changes by one step up
C10_OverflowNeverWraps ==
    [][/\ \A r \in Recs :
            (alloc[r] = "live" /\ alloc'[r] = "live")
            => (rc'[r] \in {rc[r], rc[r] + 1} /\ rc'[r] <= RootCountMax)
       /\ \A t \in AppThreads, h \in Handles :
            (clone(t, h) /\ rc[htgt[h]] = RootCountMax)
            => (pc'[t] = "panicked" /\ hst' = hst /\ rc' = rc)]_vars

\* a Clone found the counter at its maximum and panicked
C10_Witness ==
    \E r \in Recs, t \in AppThreads :
        rc[r] = RootCountMax /\ r \in poison.rc /\ pc[t] = "panicked"

\* C11: however many init_gc() calls and first uses race, GcAlloc::new() has run
\* exactly once when the Once is completed (one registry, one collection_loop
\* thread, none before), and no thread is inside register_gcbox or mark_sweep
\* before the registry has been written
C11_InitOnce ==
    /\ gcNew <= 1
    /\ onceDone <=> gcNew = 1
    /\ pc[BgThread] = "off" <=> gcNew = 0
    /\ \A t \in Threads : (pc[t] \in InCycle \cup {"register"} \/ gcLock = t) => gcNew = 1

\* the background thread runs a cycle over a non-empty registry while a client
\* thread waits to register: the lock() of several threads has gone through
\* call_once, with one registry and one collector thread
C11_Witness ==
    /\ gcNew = 1 /\ onceDone
    /\ pc[BgThread] \in InCycle
    /\ Registered # {}
    /\ \E t \in AppThreads : pc[t] = "boxed"

\* C12: a record is deallocated at most once, and only by the sweep's test of
\* that record with its mark bit clear; Drop and Demote of a handle deallocate
\* nothing and leave the registry as it is
C12_FreedOnlyBySweep ==
    [][/\ \A r \in Recs :
            /\ dtorRuns'[r] <= 1
            /\ alloc[r] = "freed" => alloc'[r] = "freed"
            /\ (alloc[r] = "live" /\ alloc'[r] # "live")
               => /\ alloc'[r] = "freed"
                  /\ \E t \in Threads :
                       pc[t] = "sweep_test" /\ frame[t].nxt = r /\ ~marked[r] /\ gcLock = t
       /\ \A t \in AppThreads, h \in Handles :
            (drop(t, h) \/ set_not_root(t, h))
            => /\ alloc' = alloc /\ dtorRuns' = dtorRuns
               /\ firstAlloc' = firstAlloc /\ nextAlloc' = nextAlloc]_vars

\* every handle to a registered record has been dropped, and the record is
\* still allocated and registered, its destructor not run
C12_Witness ==
    \E r \in Recs :
        /\ alloc[r] = "live" /\ r \in Registered /\ dtorRuns[r] = 0
        /\ \A h \in LiveHandles : htgt[h] # r
        /\ \E h \in Handles : hst[h] = "dropped"

\* C13: when Gc::new returns, the new record is registered with root_count 1
\* and the returned handle is rooted, no handle field of the value is rooted,
\* and the demotion of a field that was rooted took one off its target's
\* root_count
C13_ConstructPostcondition ==
    [][\A t \in AppThreads :
         /\ (register_gcbox(t) /\ pc'[t] = "idle")
            => /\ rc'[frame[t].box] = 1
               /\ frame[t].box \in Registered'
               /\ hst'[frame[t].h] = "held" /\ hroot'[frame[t].h]
               /\ htgt'[frame[t].h] = frame[t].box
               /\ \A h \in Handles :
                    (hst'[h] = "field" /\ hown'[h] = frame[t].box) => ~hroot'[h]
         /\ (from_box_set_not_root(t) /\ pc'[t] # "aborted")
            => LET h == Head(frame[t].todo) IN
               /\ ~hroot'[h]
               /\ rc'[htgt[h]] = IF hroot[h] THEN rc[htgt[h]] - 1 ELSE rc[htgt[h]]]_vars

\* C14: a Clone that returns adds one to the target's root_count and yields a
\* new rooted handle to the same record; every other handle, every other
\* counter and the registry are as before
C14_CloneAddsOneRoot ==
    [][\A t \in AppThreads, h \in Handles :
         (clone(t, h) /\ pc'[t] # "panicked")
         => /\ rc'[htgt[h]] = rc[htgt[h]] + 1
            /\ \A q \in Recs \ {htgt[h]} : rc'[q] = rc[q]
            /\ \E g \in Handles :
                 /\ hst[g] = "none" /\ hst'[g] = "held"
                 /\ htgt'[g] = htgt[h] /\ hroot'[g]
                 /\ \A k \in Handles \ {g} :
                      hst'[k] = hst[k] /\ htgt'[k] = htgt[k] /\ hroot'[k] = hroot[k]
            /\ alloc' = alloc /\ firstAlloc' = firstAlloc /\ nextAlloc' = nextAlloc]_vars

\* a handle field, which is not rooted, and a rooted handle held by the client
\* reference the same record, whose counter has been raised
C14_Witness ==
    \E h, g \in Handles :
        /\ hst[h] = "field" /\ ~hroot[h]
        /\ hst[g] = "held" /\ hroot[g]
        /\ htgt[g] = htgt[h] /\ alloc[htgt[h]] = "live"
        /\ rc[htgt[h]] = 3

\* C15: Drop of a rooted handle lowers the target's root_count by one, Drop of
\* a handle that is not rooted leaves it as it is
C15_DropSubtractsOne ==
    [][\A t \in AppThreads, h \in Handles :
         (drop(t, h) /\ pc'[t] # "panicked")
         => rc'[htgt[h]] = IF hroot[h] THEN rc[htgt[h]] - 1 ELSE rc[htgt[h]]]_vars

\* C16: set_not_root on a handle that is not rooted changes no root_count and
\* no is_root and does not panic, in client code and inside Gc::new; after any
\* set_not_root that returns the handle is not rooted
C16_DemoteIdempotent ==
    [][/\ \A t \in AppThreads, h \in Handles :
            /\ (set_not_root(t, h) /\ ~hroot[h])
               => (rc' = rc /\ hroot' = hroot /\ pc' = pc /\ poison' = poison)
            /\ (set_not_root(t, h) /\ pc' = pc) => ~hroot'[h]
       /\ \A t \in AppThreads :
            (from_box_set_not_root(t) /\ ~hroot[Head(frame[t].todo)])
            => (rc' = rc /\ hroot' = hroot /\ pc' = pc /\ poison' = poison)]_vars

\* the client holds the only handle to a record and has demoted it: the state
\* one set_not_root leaves, and a second one leaves again
C16_Witness ==
    \E h \in Handles :
        /\ hst[h] = "held" /\ ~hroot[h] /\ alloc[htgt[h]] = "live"
        /\ \A g \in LiveHandles \ {h} : htgt[g] # htgt[h]
        /\ \E t \in AppThreads : pc[t] = "idle"

\* C17: within one cycle val.mark() runs at most once on any record
C17_MarkedNotRevisited == \A r \in Recs : visits[r] <= 1

\* C18: with no force_collect() call, a registered record that only handle
\* fields of records without rooted handles reference is eventually deallocated
\* by the background thread's cycles (unless a mutex got poisoned by a panic)
C18_BackgroundReclaims ==
    \A r \in Recs :
        (/\ alloc[r] = "live" /\ r \in Registered /\ Unrooted(r)
         /\ \A h \in LiveHandles : r \in Reach(htgt[h]) => hst[h] = "field"
         /\ pc[BgThread] # "off")
        ~> (alloc[r] = "freed" \/ Poisoned)

Constructing(t) ==
    \/ pc[t] = "demote" /\ Len(frame[t].todo) < Cardinality(frame[t].fields)
    \/ pc[t] = "boxed" /\ Fields(frame[t].box) # {}

\* C20: while a Gc::new is between the demotion of its value's handle fields
\* and the registration of the new record, no thread is inside mark_sweep, and
\* the records those fields reference are allocated
C20_ConstructAtomic ==
    \A t \in AppThreads :
        Constructing(t)
        => /\ \A u \in Threads : pc[u] \notin InCycle
           /\ \A h \in Handles :
                (h \in frame[t].fields \/ (pc[t] = "boxed" /\ h \in Fields(frame[t].box)))
                => alloc[htgt[h]] = "live"

====
